---- MODULE Spec2Model ----
(***************************************************************************)
(* A model of rez.resolved_context.ResolvedContext: construction, the      *)
(* versioned save/load, validate, print_info, and the execution pass       *)
(* (_execute) behind get_environ, get_shell_code, apply, execute_command   *)
(* and execute_shell.                                                      *)
(*                                                                         *)
(* Text is modelled as a tuple of symbols (a symbol is a run of characters *)
(* the code never splits), so a variable name such as REZ_A_ROOT is        *)
(* <<"REZ_", "A", "_ROOT">> and a value such as "a-1 b-2" is               *)
(* <<"a-1", "b-2">>.                                                       *)
(***************************************************************************)
EXTENDS Integers, Sequences, FiniteSets, TLC

VARIABLES
    serialize_version,  \* ResolvedContext.serialize_version of the running release
    ctx,                \* the ResolvedContext object (NoCtx before __init__)
    ctx0,               \* history: the object as __init__ left it
    resolveCalls,       \* history: number of Resolver.resolve invocations
    files,              \* filesystem: path -> pickled context (NoFile if absent)
    os_environ,         \* the live process environment, os.environ
    pc,                 \* position of the call in progress ("idle" between calls)
    call,               \* locals of the call in progress
    ret,                \* what the last call returned or raised
    tmp,                \* the temp dir of the latest execute_shell call
    proc,               \* the shell process of the latest execute_shell call
    loaded              \* the object a caller kept from its latest load

vars == <<serialize_version, ctx, ctx0, resolveCalls, files,
          os_environ, pc, call, ret, tmp, proc, loaded>>

----
\* Bounds of the model.

\* longest request (and so longest resolve) the resolver is asked for
MaxPkgs == 2
\* highest major and minor number a serialize version takes
MaxMajor == 2
MaxMinor == 1
\* most items (tokens, stray marks, words) after the "=" of an old-style line
MaxItems == 3

----
\* Data the context is built from.

PkgNames == {"a", "b", "c", "d"}

Versions == (0..MaxMajor) \X (0..MaxMinor)

ResolveModes == {"latest"}

Paths == {"ctx.rxt"}

NoCtx == [none |-> TRUE]
NoFile == [nofile |-> TRUE]

\* str.upper() on the package names of the catalogue
upper(name) ==
    CASE name = "a" -> "A"
      [] name = "b" -> "B"
      [] name = "c" -> "C"
      [] name = "d" -> "D"
      [] OTHER -> name

setenv(var, val) == [op |-> "setenv", var |-> var, val |-> val]
raise_ == [op |-> "raise", var |-> <<>>, val |-> <<>>]
\* "if building: setenv(var, val)"
setenv_if_building(var, val) == [op |-> "setenv_if_building", var |-> var, val |-> val]

\* The packages the resolver can return.  commands is the package's
\* metadata "commands" entry: absent ("none"), rex code in a string ("str"),
\* an old-style list of lines ("list") or a function ("func").  The body of
\* rex code or of a function is the instructions it issues; the body of an
\* old-style list is its lines, each the text "export VAR=...".
Catalogue ==
    [n \in PkgNames |->
        [name |-> n,
         version |-> IF n = "b" THEN "2" ELSE "1",
         base |-> "/base/" \o n,
         root |-> IF n = "d" THEN "/local/d" ELSE "/root/" \o n,
         metafile |-> "/base/" \o n \o "/package.yaml",
         short |-> n \o (IF n = "b" THEN "-2" ELSE "-1"),
         commands |->
            CASE n = "a" ->
                    [kind |-> "str",
                     body |-> << setenv(<<"X">>, <<"a:", "{root}">>),
                                 setenv_if_building(<<"A_BUILD">>, <<"1">>) >>]
              [] n = "b" ->
                    [kind |-> "list",
                     body |-> << <<"export ", "X", "=", "!", "ROOT", "!", "/bin">>,
                                 <<"export ", "Y", "=", "!", "VERSION", "!", "-",
                                   "!", "USER", "!">> >>]
              [] n = "c" ->
                    [kind |-> "func",
                     body |-> << setenv(<<"Z">>, <<"c:", "{version}">>),
                                 raise_,
                                 setenv(<<"X">>, <<"c">>) >>]
              [] OTHER ->
                    [kind |-> "none", body |-> << >>]]]

RECURSIVE SeqsUpTo(_)
\* the sequences of distinct package names of length at most n
SeqsUpTo(n) ==
    IF n = 0 THEN {<< >>}
    ELSE LET shorter == SeqsUpTo(n - 1) IN
         shorter \cup
         {Append(s, p) : s \in {t \in shorter : Len(t) = n - 1}, p \in PkgNames}

Distinct(s) == \A i, j \in 1..Len(s) : i # j => s[i] # s[j]

Requests == {s \in SeqsUpTo(MaxPkgs) : Distinct(s)}

\* Resolver(...).resolve(req_packages, ...): the opaque solver.  It returns
\* the catalogue's package for each requested name, in request order.
resolve(req_packages, resolve_mode, timestamp) ==
    [package_requests |-> [i \in 1..Len(req_packages) |-> [short |-> req_packages[i]]],
     raw_package_requests |-> [i \in 1..Len(req_packages) |-> [short |-> req_packages[i]]],
     package_resolves |-> [i \in 1..Len(req_packages) |-> Catalogue[req_packages[i]]],
     resolve_mode |-> resolve_mode,
     failed_attempts |-> "0",
     request_timestamp |-> timestamp,
     dot_graph |-> "digraph"]

\* The object __init__ leaves behind.
NewContext(requested_packages, resolve_mode, timestamp) ==
    [serialize_ver |-> serialize_version,
     req_packages |-> requested_packages,
     resolve_mode |-> resolve_mode,
     request_time |-> timestamp,
     build_requires |-> FALSE,
     assume_dt |-> TRUE,
     caching |-> TRUE,
     package_paths |-> "None",
     add_implicit_packages |-> TRUE,
     user |-> "user",
     host |-> "host",
     platform |-> "linux",
     arch |-> "x86_64",
     os |-> "os",
     shell |-> "bash",
     rez_version |-> "2.0",
     rez_path |-> "/opt/rez",
     implicit_packages |-> << >>,
     created |-> 100,
     result |-> resolve(requested_packages, resolve_mode, timestamp)]

----
\* What a call returns or raises.

\* no executor: the sink of a call that ran no execution pass
NoSink ==
    [target |-> "none", env |-> << >>, code |-> << >>,
     bound |-> [building |-> "unbound", this |-> "unbound", root |-> "unbound",
                base |-> "unbound", version |-> "unbound"],
     log |-> << >>]

NoErr == [type |-> "none", msg |-> "", pkg |-> "", path |-> "", cause |-> ""]
Err(type, msg, pkg, path, cause) ==
    [type |-> type, msg |-> msg, pkg |-> pkg, path |-> path, cause |-> cause]

\* arg is what the call was given and what it read of the world, sink the
\* executor an execution pass was run on, as the call left it
Returned(op, arg, value) ==
    [op |-> op, arg |-> arg, status |-> "returned", value |-> value,
     err |-> NoErr, sink |-> NoSink]
Raised(op, arg, err) ==
    [op |-> op, arg |-> arg, status |-> "raised", value |-> "None",
     err |-> err, sink |-> NoSink]
NoRet ==
    [op |-> "none", arg |-> "None", status |-> "none", value |-> "None",
     err |-> NoErr, sink |-> NoSink]


Idle == pc = "idle"
Constructed == ctx # NoCtx

----
\* __init__ : record the settings and provenance, then resolve once.

\* the constructor resolving a second time
__init__resolving_twice ==
    /\ Idle
    /\ ~Constructed
    /\ \E requested_packages \in Requests, resolve_mode \in ResolveModes :
         LET self == NewContext(requested_packages, resolve_mode, "0") IN
         /\ ctx' = self
         /\ ctx0' = self
    /\ resolveCalls' = resolveCalls + 2
    /\ ret' = Returned("__init__", "None", "None")
    /\ UNCHANGED <<serialize_version, files, os_environ, pc, call,
                   tmp, proc, loaded>>

__init__ ==
    /\ Idle
    /\ ~Constructed
    /\ \E requested_packages \in Requests, resolve_mode \in ResolveModes :
         LET self == NewContext(requested_packages, resolve_mode, "0") IN
         /\ ctx' = self
         /\ ctx0' = self
    /\ resolveCalls' = resolveCalls + 1
    /\ ret' = Returned("__init__", "None", "None")
    /\ UNCHANGED <<serialize_version, files, os_environ, pc, call,
                   tmp, proc, loaded>>

\* The names of the old-style expansion tokens !NAME!.
TokenNames ==
    {"VERSION", "MAJOR_VERSION", "MINOR_VERSION", "BASE", "ROOT", "USER"}

\* what an old-style line is made of after its "export X=": whole tokens,
\* a stray "!", bare words that are token names, other text
Items ==
    {<<"!", n, "!">> : n \in TokenNames}
        \cup {<<"!">>, <<"/bin">>, <<"ROOT">>, <<"BASE">>, <<"VERSION">>}

RECURSIVE ItemSeqs(_)
\* the texts of at most n items
ItemSeqs(n) ==
    IF n = 0 THEN {<< >>}
    ELSE LET shorter == ItemSeqs(n - 1) IN
         shorter \cup {t \o i : t \in shorter, i \in Items}

\* the old-style command lists a package may declare: one line, or that
\* line followed by a second
LegacyLists ==
    LET first == {<<"export ", "X", "=">> \o t : t \in ItemSeqs(MaxItems)}
        second == <<"export ", "Y", "=", "!", "USER", "!">>
    IN  {<<l>> : l \in first} \cup {<<l, second>> : l \in first}

\* __init__ over a resolver whose answer to the request "b" is a package
\* with any old-style command list
__init__legacy ==
    /\ Idle
    /\ ~Constructed
    /\ \E commands \in LegacyLists :
         LET self == NewContext(<<"b">>, "latest", "0")
             pkg == [Catalogue["b"] EXCEPT !.commands.body = commands] IN
         /\ ctx' = [self EXCEPT !.result.package_resolves = <<pkg>>]
         /\ ctx0' = ctx'
    /\ resolveCalls' = resolveCalls + 1
    /\ ret' = Returned("__init__", "None", "None")
    /\ UNCHANGED <<serialize_version, files, os_environ, pc, call,
                   tmp, proc, loaded>>

----
\* save / load

\* a dump that writes an empty resolve result
pickle_dump_without_result(self) ==
    [pickle |-> [self EXCEPT !.result = resolve(<< >>, self.resolve_mode,
                                                self.request_time)]]

\* pickle.dump(self, f): the whole object graph
pickle_dump(self) == [pickle |-> self]
\* pickle.load(f) on a complete blob
pickle_load(blob) == blob.pickle

\* what open(path, 'w') followed by an interrupted dump leaves at path
Partial == [partial |-> TRUE]

\* The file at path after save(path): open(path, 'w') either fails and
\* leaves the file alone, or truncates it; the dump then writes the blob, or
\* stops part way.
save_file(self, old, outcome) ==
    CASE outcome = "open_fails" -> old
      [] outcome = "dump_fails" -> Partial
      [] OTHER -> pickle_dump(self)

SaveOutcomes == {"ok", "open_fails", "dump_fails"}

save_ret(path, outcome) ==
    IF outcome = "ok" THEN Returned("save", path, "None")
    ELSE Raised("save", path, Err("IOError", outcome, "", path, ""))

save ==
    /\ Idle
    /\ Constructed
    /\ \E path \in Paths, outcome \in SaveOutcomes :
         /\ files' = [files EXCEPT ![path] = save_file(ctx, files[path], outcome)]
         /\ ret' = save_ret(path, outcome)
    /\ UNCHANGED <<serialize_version, ctx, ctx0, resolveCalls,
                   os_environ, pc, call, tmp, proc, loaded>>

\* A context file written at path by a release of Rez whose
\* serialize_version is v.
OtherReleaseSave ==
    /\ Idle
    /\ \E path \in Paths, v \in Versions :
         files' = [files EXCEPT ![path] =
                      pickle_dump([NewContext(<<"a">>, "latest", "0")
                                      EXCEPT !.serialize_ver = v])]
    /\ UNCHANGED <<serialize_version, ctx, ctx0, resolveCalls,
                   os_environ, pc, call, ret, tmp, proc, loaded>>

\* tuple comparison t < u on (major, minor) pairs
TupleLess(t, u) == t[1] < u[1] \/ (t[1] = u[1] /\ t[2] < u[2])

\* load with the too-new test made on the whole tuple, not the major number
load_check_tuple_newer(r, curr_ver) ==
    IF TupleLess(r.serialize_ver, curr_ver)
    THEN Err("Exception", "too old", "", "", "")
    ELSE IF TupleLess(curr_ver, r.serialize_ver)
    THEN Err("Exception", "too new", "", "", "")
    ELSE NoErr

\* load with the too-old test made on the major number alone
load_check_major_only(r, curr_ver) ==
    IF r.serialize_ver[1] < curr_ver[1]
    THEN Err("Exception", "too old", "", "", "")
    ELSE IF r.serialize_ver[1] > curr_ver[1]
    THEN Err("Exception", "too new", "", "", "")
    ELSE NoErr

\* The version checks of load on an unpickled object r.
load_check(r, curr_ver) ==
    IF TupleLess(r.serialize_ver, curr_ver)
    THEN Err("Exception", "too old", "", "", "")
    ELSE IF r.serialize_ver[1] > curr_ver[1]
    THEN Err("Exception", "too new", "", "", "")
    ELSE NoErr

load_ret(path, blob, curr_ver) ==
    LET arg == [path |-> path,
                blob |-> blob,
                stored |-> IF blob \in {NoFile, Partial} THEN << >>
                           ELSE pickle_load(blob).serialize_ver] IN
    IF blob = NoFile
    THEN Raised("load", arg, Err("IOError", "no such file", "", path, ""))
    ELSE IF blob = Partial
    THEN Raised("load", arg, Err("UnpicklingError", "truncated", "", path, ""))
    ELSE LET r == pickle_load(blob) IN
         IF load_check(r, curr_ver) # NoErr
         THEN Raised("load", arg, load_check(r, curr_ver))
         ELSE Returned("load", arg, r)

load ==
    /\ Idle
    /\ \E path \in Paths :
         ret' = load_ret(path, files[path], serialize_version)
    /\ UNCHANGED <<serialize_version, ctx, ctx0, resolveCalls, files,
                   os_environ, pc, call, tmp, proc, loaded>>

\* r = ResolvedContext.load(path), the caller keeping the object
load_kept ==
    /\ Idle
    /\ \E path \in Paths :
         /\ ret' = load_ret(path, files[path], serialize_version)
         /\ loaded' = IF ret'.status = "returned" THEN ret'.value ELSE loaded
    /\ UNCHANGED <<serialize_version, ctx, ctx0, resolveCalls, files,
                   os_environ, pc, call, tmp, proc>>

\* save(path) called on the object load returned
loaded_save ==
    /\ Idle
    /\ loaded # NoCtx
    /\ \E path \in Paths, outcome \in SaveOutcomes :
         /\ files' = [files EXCEPT ![path] = save_file(loaded, files[path], outcome)]
         /\ ret' = save_ret(path, outcome)
    /\ UNCHANGED <<serialize_version, ctx, ctx0, resolveCalls,
                   os_environ, pc, call, tmp, proc, loaded>>

----
\* validate / print_info

exists(path, gone) == path \notin gone

\* the loop reporting the last missing root it meets, not the first
validate_from_last(pkgs, i, gone) ==
    LET miss == {j \in i..Len(pkgs) : ~exists(pkgs[j].root, gone)}
        last == CHOOSE j \in miss : \A h \in miss : h <= j
    IN  IF miss = {} THEN NoErr
        ELSE Err("Exception", "path does not exist", pkgs[last].short,
                 pkgs[last].root, "")

RECURSIVE validate_from(_, _, _)
\* the loop of validate from the i-th resolved package on
validate_from(pkgs, i, gone) ==
    IF i > Len(pkgs) THEN NoErr
    ELSE IF ~exists(pkgs[i].root, gone)
    THEN Err("Exception", "path does not exist", pkgs[i].short, pkgs[i].root, "")
    ELSE validate_from(pkgs, i + 1, gone)

validate_ret(self, gone) ==
    LET e == validate_from(self.result.package_resolves, 1, gone) IN
    IF e = NoErr THEN Returned("validate", gone, "None")
    ELSE Raised("validate", gone, e)

\* the roots of the resolved packages; which of them are on disk when a
\* call looks is the filesystem's choice
roots(self) ==
    {self.result.package_resolves[i].root :
        i \in 1..Len(self.result.package_resolves)}

validate ==
    /\ Idle
    /\ Constructed
    /\ \E gone \in SUBSET roots(ctx) :
         ret' = validate_ret(ctx, gone)
    /\ UNCHANGED <<serialize_version, ctx, ctx0, resolveCalls, files,
                   os_environ, pc, call, tmp, proc, loaded>>

\* the package roots under settings.local_packages_path
LocalRoots == {"/local/d"}

\* the table of resolved packages print_info writes
print_rows(self, gone) ==
    [i \in 1..Len(self.result.package_resolves) |->
        LET pkg == self.result.package_resolves[i] IN
        <<pkg.short, pkg.root,
          IF ~exists(pkg.root, gone) THEN "NOT FOUND"
          ELSE IF pkg.root \in LocalRoots THEN "local"
          ELSE "">>]

print_info ==
    /\ Idle
    /\ Constructed
    /\ \E gone \in SUBSET roots(ctx) :
         ret' = Returned("print_info", gone, print_rows(ctx, gone))
    /\ UNCHANGED <<serialize_version, ctx, ctx0, resolveCalls, files,
                   os_environ, pc, call, tmp, proc, loaded>>

----
\* The rex executor (rez.rex.RexExecutor and its interpreter): the sink of
\* the execution pass.  env is the variable map it builds, code the source
\* lines a shell interpreter emits, bound the named references visible to
\* package commands, log the history of what was applied, in order.

Unbound == "unbound"

NoBound ==
    [building |-> Unbound, this |-> Unbound, root |-> Unbound,
     base |-> Unbound, version |-> Unbound]

\* an entry of the log: what was applied, for which package ("" for none),
\* and for a command its position in the package's commands
Event(ev, pkg, i) == [ev |-> ev, pkg |-> pkg, i |-> i]

\* RexExecutor(interpreter=..., parent_environ=...), target being the
\* interpreter's target: "dict" (a fresh {}), "os.environ" or "shell"
RexExecutor(target, target_environ) ==
    [target |-> target, env |-> target_environ, code |-> << >>,
     bound |-> NoBound, log |-> << >>]

NoExecutor == NoSink

put(env, var, val) ==
    [v \in DOMAIN env \cup {var} |-> IF v = var THEN val ELSE env[v]]

\* one set-variable instruction reaching the sink
ex_setenv(ex, var, val, event) ==
    [ex EXCEPT !.env = put(@, var, val),
               !.code = Append(@, [kind |-> "setenv", var |-> var, val |-> val]),
               !.log = Append(@, event)]

ex_comment(ex, text, event) ==
    [ex EXCEPT !.code = Append(@, [kind |-> "comment", var |-> << >>, val |-> text]),
               !.log = Append(@, event)]

RECURSIVE update_env_from(_, _, _, _)
\* executor.update_env(d), d given as a sequence of <<name, value>> pairs
update_env_from(ex, d, j, event) ==
    IF j > Len(d) THEN ex
    ELSE update_env_from(ex_setenv(ex, d[j][1], d[j][2], event), d, j + 1, event)

update_env(ex, d, event) == update_env_from(ex, d, 1, event)

bind(ex, name, value) == [ex EXCEPT !.bound = [@ EXCEPT ![name] = value]]

\* executor.get_output(): the target dict of a python interpreter, the
\* source text of a shell
get_output(ex) == IF ex.target = "shell" THEN ex.code ELSE ex.env

\* the text of a value with the {name} references of the bound names filled in
expand(val, bound) ==
    [j \in 1..Len(val) |->
        CASE val[j] = "{root}" -> bound.root
          [] val[j] = "{base}" -> bound.base
          [] val[j] = "{version}" -> bound.version
          [] OTHER -> val[j]]

RECURSIVE run_from(_, _, _, _)
\* execute_code / execute_function on a package's instructions from the
\* i-th on: the cause of the exception it raises ("" if none) and the
\* executor as the evaluation leaves it
run_from(ex, body, i, pkg) ==
    IF i > Len(body) THEN [ex |-> ex, cause |-> ""]
    ELSE IF body[i].op = "raise" THEN [ex |-> ex, cause |-> "boom"]
    ELSE IF body[i].op = "setenv_if_building" /\ ex.bound.building # TRUE
    THEN run_from(ex, body, i + 1, pkg)
    ELSE run_from(ex_setenv(ex, body[i].var, expand(body[i].val, ex.bound),
                            Event("cmd", pkg, i)),
                  body, i + 1, pkg)

----
\* _execute

_stringify_pkgs(pkgs) == [j \in 1..Len(pkgs) |-> pkgs[j].short]

\* os.getenv(name) is set and not empty
getenv_bool(name, environ) == name \in DOMAIN environ /\ environ[name] # << >>

\* the resolution-scoped variables and the building flag
_execute_init(self, ex, environ) ==
    bind(update_env(ex,
            << << <<"REZ_USED">>, <<self.rez_path>> >>,
               << <<"REZ_REQUEST">>, _stringify_pkgs(self.result.package_requests) >>,
               << <<"REZ_RAW_REQUEST">>, _stringify_pkgs(self.result.raw_package_requests) >>,
               << <<"REZ_RESOLVE">>, _stringify_pkgs(self.result.package_resolves) >>,
               << <<"REZ_RESOLVE_MODE">>, <<self.result.resolve_mode>> >>,
               << <<"REZ_FAILED_ATTEMPTS">>, <<self.result.failed_attempts>> >>,
               << <<"REZ_REQUEST_TIME">>, <<self.result.request_timestamp>> >> >>,
            Event("resolve_vars", "", 0)),
         "building", getenv_bool(<<"REZ_BUILD_ENV">>, environ))

RECURSIVE replace(_, _, _)
\* str.replace(old, new): every non-overlapping occurrence, left to right
replace(str, old, new) ==
    IF Len(str) < Len(old) THEN str
    ELSE IF SubSeq(str, 1, Len(old)) = old
    THEN new \o replace(SubSeq(str, Len(old) + 1, Len(str)), old, new)
    ELSE <<Head(str)>> \o replace(Tail(str), old, new)

\* the replacements with the one for !USER! left out
convert_expansions_without_user(cmd) ==
    LET c1 == replace(cmd, <<"!", "VERSION", "!">>, <<"{version}">>)
        c2 == replace(c1, <<"!", "MAJOR_VERSION", "!">>, <<"{version.major}">>)
        c3 == replace(c2, <<"!", "MINOR_VERSION", "!">>, <<"{version.minor}">>)
        c4 == replace(c3, <<"!", "BASE", "!">>, <<"{base}">>)
    IN  replace(c4, <<"!", "ROOT", "!">>, <<"{root}">>)

\* the six replacements applied to one old-style line, in the code's order
convert_expansions(cmd) ==
    LET c1 == replace(cmd, <<"!", "VERSION", "!">>, <<"{version}">>)
        c2 == replace(c1, <<"!", "MAJOR_VERSION", "!">>, <<"{version.major}">>)
        c3 == replace(c2, <<"!", "MINOR_VERSION", "!">>, <<"{version.minor}">>)
        c4 == replace(c3, <<"!", "BASE", "!">>, <<"{base}">>)
        c5 == replace(c4, <<"!", "ROOT", "!">>, <<"{root}">>)
    IN  replace(c5, <<"!", "USER", "!">>, <<"{user}">>)

\* rez.util.convert_old_commands: one instruction per line, in order
convert_old_commands(cmds) ==
    [j \in 1..Len(cmds) |->
        setenv(<<cmds[j][2]>>, SubSeq(cmds[j], 4, Len(cmds[j])))]

\* commands as the try block receives them: an old-style list is rewritten
\* to rex code in a string
normalized(commands) ==
    IF commands.kind = "list"
    THEN [kind |-> "str",
          body |-> convert_old_commands(
                      [j \in 1..Len(commands.body) |->
                          convert_expansions(commands.body[j])])]
    ELSE commands

\* names bound in the module's namespace: its imports and its class
ModuleNames ==
    {"__version__", "module_root_path", "Resolver", "system", "settings",
     "columnise", "convert_old_commands", "shlex_join", "mkdtemp_", "rmdtemp",
     "print_warning_once", "RexExecutor", "Python", "create_shell",
     "get_shell_types", "pickle", "getpass", "inspect", "time", "sys", "os",
     "ResolvedContext"}

\* raise Name(...): looking up a name the module does not bind raises
\* NameError in place of the exception that was to be built
raise_named(name, msg, pkg, path, cause) ==
    IF name \in ModuleNames THEN Err(name, msg, pkg, path, cause)
    ELSE Err("NameError", "global name is not defined", "", "", "")

\* the loop run from the last package to the first
for_item_reversed(pkgs, k) == pkgs[Len(pkgs) + 1 - k]

\* the k-th item the loop over package_resolves visits
for_item(pkgs, k) == pkgs[k]

\* the iteration binding the four names only where they are still unbound
_execute_pkg_bind_once(ex, pkg_res) ==
    LET ex1 == ex_comment(ex, <<"Commands from package ", pkg_res.short>>,
                          Event("comment", pkg_res.name, 0))
        prefix == <<"REZ_", upper(pkg_res.name)>>
        ex2 == update_env(ex1,
                  << << prefix \o <<"_VERSION">>, <<pkg_res.version>> >>,
                     << prefix \o <<"_BASE">>, <<pkg_res.base>> >>,
                     << prefix \o <<"_ROOT">>, <<pkg_res.root>> >> >>,
                  Event("pkg_vars", pkg_res.name, 0))
        ex3 == IF ex2.bound.this # Unbound THEN ex2
               ELSE bind(bind(bind(bind(ex2, "this", pkg_res.name),
                                   "root", pkg_res.root),
                              "base", pkg_res.base),
                         "version", pkg_res.version)
        ex4 == [ex3 EXCEPT !.log = Append(@, Event("bind", pkg_res.name, 0))]
        commands == pkg_res.commands
    IN  IF commands.kind = "none" \/ Len(commands.body) = 0
        THEN [ex |-> ex4, err |-> NoErr]
        ELSE LET r == run_from(ex4, normalized(commands).body, 1, pkg_res.name) IN
             [ex |-> r.ex,
              err |-> IF r.cause = "" THEN NoErr
                      ELSE raise_named("PkgCommandError", "Error in commands",
                                       pkg_res.short, pkg_res.metafile, r.cause)]

\* the iteration setting a fourth variable, named by the prefix itself
_execute_pkg_with_marker(ex, pkg_res) ==
    LET ex1 == ex_comment(ex, <<"Commands from package ", pkg_res.short>>,
                          Event("comment", pkg_res.name, 0))
        prefix == <<"REZ_", upper(pkg_res.name)>>
        ex2 == update_env(ex1,
                  << << prefix, <<"1">> >>,
                     << prefix \o <<"_VERSION">>, <<pkg_res.version>> >>,
                     << prefix \o <<"_BASE">>, <<pkg_res.base>> >>,
                     << prefix \o <<"_ROOT">>, <<pkg_res.root>> >> >>,
                  Event("pkg_vars", pkg_res.name, 0))
        ex3 == bind(bind(bind(bind(ex2, "this", pkg_res.name),
                              "root", pkg_res.root),
                         "base", pkg_res.base),
                    "version", pkg_res.version)
        ex4 == [ex3 EXCEPT !.log = Append(@, Event("bind", pkg_res.name, 0))]
        commands == pkg_res.commands
    IN  IF commands.kind = "none" \/ Len(commands.body) = 0
        THEN [ex |-> ex4, err |-> NoErr]
        ELSE LET r == run_from(ex4, normalized(commands).body, 1, pkg_res.name) IN
             [ex |-> r.ex,
              err |-> IF r.cause = "" THEN NoErr
                      ELSE raise_named("PkgCommandError", "Error in commands",
                                       pkg_res.short, pkg_res.metafile, r.cause)]

\* the iteration with the package's variables set after its commands ran
_execute_pkg_vars_last(ex, pkg_res) ==
    LET ex1 == ex_comment(ex, <<"Commands from package ", pkg_res.short>>,
                          Event("comment", pkg_res.name, 0))
        prefix == <<"REZ_", upper(pkg_res.name)>>
        ex3 == bind(bind(bind(bind(ex1, "this", pkg_res.name),
                              "root", pkg_res.root),
                         "base", pkg_res.base),
                    "version", pkg_res.version)
        ex4 == [ex3 EXCEPT !.log = Append(@, Event("bind", pkg_res.name, 0))]
        commands == pkg_res.commands
        r == IF commands.kind = "none" \/ Len(commands.body) = 0
             THEN [ex |-> ex4, cause |-> ""]
             ELSE run_from(ex4, normalized(commands).body, 1, pkg_res.name)
    IN  [ex |-> update_env(r.ex,
                  << << prefix \o <<"_VERSION">>, <<pkg_res.version>> >>,
                     << prefix \o <<"_BASE">>, <<pkg_res.base>> >>,
                     << prefix \o <<"_ROOT">>, <<pkg_res.root>> >> >>,
                  Event("pkg_vars", pkg_res.name, 0)),
         err |-> IF r.cause = "" THEN NoErr
                 ELSE raise_named("PkgCommandError", "Error in commands",
                                  pkg_res.short, pkg_res.metafile, r.cause)]

\* one iteration of the loop over package_resolves, for package pkg_res:
\* the executor afterwards and the exception raised (NoErr if none)
_execute_pkg(ex, pkg_res) ==
    LET ex1 == ex_comment(ex, <<"Commands from package ", pkg_res.short>>,
                          Event("comment", pkg_res.name, 0))
        prefix == <<"REZ_", upper(pkg_res.name)>>
        ex2 == update_env(ex1,
                  << << prefix \o <<"_VERSION">>, <<pkg_res.version>> >>,
                     << prefix \o <<"_BASE">>, <<pkg_res.base>> >>,
                     << prefix \o <<"_ROOT">>, <<pkg_res.root>> >> >>,
                  Event("pkg_vars", pkg_res.name, 0))
        ex3 == bind(bind(bind(bind(ex2, "this", pkg_res.name),
                              "root", pkg_res.root),
                         "base", pkg_res.base),
                    "version", pkg_res.version)
        ex4 == [ex3 EXCEPT !.log = Append(@, Event("bind", pkg_res.name, 0))]
        commands == pkg_res.commands
    IN  IF commands.kind = "none" \/ Len(commands.body) = 0
        THEN [ex |-> ex4, err |-> NoErr]
        ELSE LET r == run_from(ex4, normalized(commands).body, 1, pkg_res.name) IN
             [ex |-> r.ex,
              err |-> IF r.cause = "" THEN NoErr
                      ELSE raise_named("PkgCommandError", "Error in commands",
                                       pkg_res.short, pkg_res.metafile, r.cause)]

----
\* The calls that run an execution pass.  A call is in progress from the
\* action that starts it to the action that returns or raises; nothing else
\* runs in between (the program is single-threaded).

NoCall ==
    [op |-> "none", command_arg |-> "None", block_arg |-> "None",
     command |-> "None", stdin |-> FALSE, block |-> FALSE,
     ex |-> NoExecutor, k |-> 0]

\* the arguments of a call, and the value block took
CallArg(c) ==
    [command |-> c.command_arg, stdin |-> c.stdin, block |-> c.block_arg,
     blocking |-> c.block]

StartCall(op, ex) == [NoCall EXCEPT !.op = op, !.ex = ex]

\* the executor's target map is os.environ itself when the pass is an apply
LiveEnv(c) == IF c.ex.target = "os.environ" THEN c.ex.env ELSE os_environ

\* get_environ starting its map from a copy of os.environ
get_environ_seeded ==
    /\ Idle
    /\ Constructed
    /\ call' = StartCall("get_environ", RexExecutor("dict", os_environ))
    /\ pc' = "execute"
    /\ ret' = NoRet
    /\ UNCHANGED <<serialize_version, ctx, ctx0, resolveCalls, files,
                   os_environ, tmp, proc, loaded>>

\* get_environ handing the interpreter os.environ as its target
get_environ_live ==
    /\ Idle
    /\ Constructed
    /\ call' = StartCall("get_environ", RexExecutor("os.environ", os_environ))
    /\ pc' = "execute"
    /\ ret' = NoRet
    /\ UNCHANGED <<serialize_version, ctx, ctx0, resolveCalls, files,
                   os_environ, tmp, proc, loaded>>

get_environ ==
    /\ Idle
    /\ Constructed
    /\ call' = StartCall("get_environ", RexExecutor("dict", << >>))
    /\ pc' = "execute"
    /\ ret' = NoRet
    /\ UNCHANGED <<serialize_version, ctx, ctx0, resolveCalls, files,
                   os_environ, tmp, proc, loaded>>

get_shell_code ==
    /\ Idle
    /\ Constructed
    /\ call' = StartCall("get_shell_code", RexExecutor("shell", << >>))
    /\ pc' = "execute"
    /\ ret' = NoRet
    /\ UNCHANGED <<serialize_version, ctx, ctx0, resolveCalls, files,
                   os_environ, tmp, proc, loaded>>

apply ==
    /\ Idle
    /\ Constructed
    /\ call' = StartCall("apply", RexExecutor("os.environ", os_environ))
    /\ pc' = "execute"
    /\ ret' = NoRet
    /\ UNCHANGED <<serialize_version, ctx, ctx0, resolveCalls, files,
                   os_environ, tmp, proc, loaded>>

execute_command ==
    /\ Idle
    /\ Constructed
    /\ call' = StartCall("execute_command", RexExecutor("dict", << >>))
    /\ pc' = "execute"
    /\ ret' = NoRet
    /\ UNCHANGED <<serialize_version, ctx, ctx0, resolveCalls, files,
                   os_environ, tmp, proc, loaded>>

\* _execute up to the loop
_execute ==
    /\ pc = "execute"
    /\ call' = [call EXCEPT !.ex = _execute_init(ctx, call.ex, os_environ), !.k = 1]
    /\ os_environ' = LiveEnv(call')
    /\ pc' = "packages"
    /\ UNCHANGED <<serialize_version, ctx, ctx0, resolveCalls, files,
                   ret, tmp, proc, loaded>>

\* the loop body for the next package, when it raises nothing
_execute_next ==
    /\ pc = "packages"
    /\ call.k <= Len(ctx.result.package_resolves)
    /\ LET r == _execute_pkg(call.ex, for_item(ctx.result.package_resolves, call.k)) IN
       /\ r.err = NoErr
       /\ call' = [call EXCEPT !.ex = r.ex, !.k = call.k + 1]
       /\ os_environ' = LiveEnv(call')
    /\ UNCHANGED <<serialize_version, ctx, ctx0, resolveCalls, files,
                   pc, ret, tmp, proc, loaded>>

\* the loop body for the next package, when its commands raise: the
\* exception leaves _execute and the call that ran it
_execute_raise ==
    /\ pc = "packages"
    /\ call.k <= Len(ctx.result.package_resolves)
    /\ LET r == _execute_pkg(call.ex, for_item(ctx.result.package_resolves, call.k)) IN
       /\ r.err # NoErr
       /\ os_environ' = LiveEnv([call EXCEPT !.ex = r.ex])
       /\ ret' = [Raised(call.op, CallArg(call), r.err) EXCEPT !.sink = r.ex]
    /\ call' = NoCall
    /\ pc' = "idle"
    /\ UNCHANGED <<serialize_version, ctx, ctx0, resolveCalls, files,
                   tmp, proc, loaded>>

PassDone == pc = "packages" /\ call.k > Len(ctx.result.package_resolves)

\* get_environ, get_shell_code, apply and execute_command after the pass
pass_return ==
    /\ PassDone
    /\ call.op \in {"get_environ", "get_shell_code", "apply", "execute_command"}
    /\ ret' = [Returned(call.op, CallArg(call),
                  CASE call.op \in {"get_environ", "get_shell_code"} -> get_output(call.ex)
                    [] call.op = "execute_command" -> "Popen"
                    [] OTHER -> "None")
               EXCEPT !.sink = call.ex]
    /\ call' = NoCall
    /\ pc' = "idle"
    /\ UNCHANGED <<serialize_version, ctx, ctx0, resolveCalls, files,
                   os_environ, tmp, proc, loaded>>

----
\* execute_shell

\* the command argument: None, a string (empty or not) or a list of
\* arguments (empty or not)
CommandArgs == {"None", "", "cmd", "[]", "[cmd]"}

\* the block argument: not given (None), or given
BlockArgs == {"None", "True", "False"}

has_iter(command) == command \in {"[]", "[cmd]"}

\* rez.util.shlex_join: the arguments quoted and joined by spaces
shlex_join(command) == IF command = "[]" THEN "" ELSE "cmd"

\* Python truth of the command after joining: None and "" are false
truthy(command) == command \notin {"None", ""}

joined(command) == IF has_iter(command) THEN shlex_join(command) ELSE command

\* the default taken from "command is not None", not from its truth
block_value_not_none(block, command, stdin) ==
    IF block = "None" THEN ~(command # "None" \/ stdin)
    ELSE block = "True"

\* the default taken from stdin alone
block_value_ignores_command(block, command, stdin) ==
    IF block = "None" THEN ~stdin
    ELSE block = "True"

\* the value of block after the default is filled in
block_value(block, command, stdin) ==
    IF block = "None" THEN ~(truthy(command) \/ stdin)
    ELSE block = "True"

NoDir == [exists |-> FALSE, rxt |-> NoFile, context |-> NoFile]
NoProc == [state |-> "none", drained |-> FALSE, returncode |-> 0]


\* from the entry of execute_shell to tmpdir = mkdtemp_(); the shell type is
\* one create_shell knows
execute_shell ==
    /\ Idle
    /\ Constructed
    /\ \E command \in CommandArgs, stdin \in BOOLEAN, block \in BlockArgs :
         call' = [NoCall EXCEPT !.op = "execute_shell",
                                !.command_arg = command,
                                !.block_arg = block,
                                !.command = joined(command),
                                !.stdin = stdin,
                                !.block = block_value(block, joined(command), stdin)]
    /\ tmp' = [NoDir EXCEPT !.exists = TRUE]
    /\ proc' = NoProc
    /\ pc' = "sh_save"
    /\ ret' = NoRet
    /\ UNCHANGED <<serialize_version, ctx, ctx0, resolveCalls, files,
                   os_environ, loaded>>

\* the call going on to the pass whatever became of the save
sh_save_ignoring_failure ==
    /\ pc = "sh_save"
    /\ \E outcome \in SaveOutcomes :
         /\ tmp' = [tmp EXCEPT !.rxt = save_file(ctx, tmp.rxt, outcome)]
         /\ call' = [call EXCEPT !.ex =
               ex_setenv(
                 ex_setenv(RexExecutor("shell", << >>),
                           <<"REZ_RXT_FILE">>, <<"tmpdir", "/context.rxt">>,
                           Event("file_vars", "", 0)),
                 <<"REZ_CONTEXT_FILE">>, <<"tmpdir", "/context.sh">>,
                 Event("file_vars", "", 0))]
         /\ pc' = "execute"
         /\ ret' = ret
    /\ UNCHANGED <<serialize_version, ctx, ctx0, resolveCalls, files,
                   os_environ, proc, loaded>>

\* self.save(rxt_file), then the executor with the two file variables set
sh_save ==
    /\ pc = "sh_save"
    /\ \E outcome \in SaveOutcomes :
         /\ tmp' = [tmp EXCEPT !.rxt = save_file(ctx, tmp.rxt, outcome)]
         /\ IF outcome = "ok"
            THEN /\ call' = [call EXCEPT !.ex =
                       ex_setenv(
                         ex_setenv(RexExecutor("shell", << >>),
                                   <<"REZ_RXT_FILE">>, <<"tmpdir", "/context.rxt">>,
                                   Event("file_vars", "", 0)),
                         <<"REZ_CONTEXT_FILE">>, <<"tmpdir", "/context.sh">>,
                         Event("file_vars", "", 0))]
                 /\ pc' = "execute"
                 /\ ret' = ret
            ELSE /\ call' = NoCall
                 /\ pc' = "idle"
                 /\ ret' = Raised("execute_shell", CallArg(call),
                                  Err("IOError", outcome, "", "context.rxt", ""))
    /\ UNCHANGED <<serialize_version, ctx, ctx0, resolveCalls, files,
                   os_environ, proc, loaded>>

\* context_code = executor.get_output(), written to context_file
sh_write ==
    /\ PassDone
    /\ call.op = "execute_shell"
    /\ \E ok \in BOOLEAN :
         IF ok
         THEN /\ tmp' = [tmp EXCEPT !.context = get_output(call.ex)]
              /\ pc' = "sh_spawn"
              /\ call' = call
              /\ ret' = ret
         ELSE /\ tmp' = [tmp EXCEPT !.context = Partial]
              /\ pc' = "idle"
              /\ call' = NoCall
              /\ ret' = [Raised("execute_shell", CallArg(call),
                                Err("IOError", "write fails", "", "context.sh", ""))
                         EXCEPT !.sink = call.ex]
    /\ UNCHANGED <<serialize_version, ctx, ctx0, resolveCalls, files,
                   os_environ, proc, loaded>>

\* p = sh.spawn_shell(...), and the return of the handle when not blocking
sh_spawn ==
    /\ pc = "sh_spawn"
    /\ \E ok \in BOOLEAN :
         IF ok
         THEN /\ proc' = [NoProc EXCEPT !.state = "running"]
              /\ IF call.block
                 THEN /\ pc' = "communicate"
                      /\ call' = call
                      /\ ret' = ret
                 ELSE /\ pc' = "idle"
                      /\ call' = NoCall
                      /\ ret' = [Returned("execute_shell", CallArg(call),
                                          [kind |-> "Popen", returncode |-> -1,
                                           stdout |-> "", stderr |-> ""])
                                 EXCEPT !.sink = call.ex]
         ELSE /\ proc' = proc
              /\ pc' = "idle"
              /\ call' = NoCall
              /\ ret' = [Raised("execute_shell", CallArg(call),
                                Err("OSError", "spawn fails", "", "", ""))
                         EXCEPT !.sink = call.ex]
    /\ UNCHANGED <<serialize_version, ctx, ctx0, resolveCalls, files,
                   os_environ, tmp, loaded>>

\* the blocking return made without waiting for the process
sh_communicate_nowait ==
    /\ pc = "communicate"
    /\ proc' = proc
    /\ ret' = [Returned("execute_shell", CallArg(call),
                        [kind |-> "tuple",
                         returncode |-> proc.returncode,
                         stdout |-> "stdout", stderr |-> "stderr"])
               EXCEPT !.sink = call.ex]
    /\ call' = NoCall
    /\ pc' = "idle"
    /\ UNCHANGED <<serialize_version, ctx, ctx0, resolveCalls, files,
                   os_environ, tmp, loaded>>

\* stdout,stderr = p.communicate(): returns once the process has exited and
\* its streams have reached end of file
sh_communicate ==
    /\ pc = "communicate"
    /\ proc.state = "exited"
    /\ proc' = [proc EXCEPT !.drained = TRUE]
    /\ ret' = [Returned("execute_shell", CallArg(call),
                        [kind |-> "tuple",
                         returncode |-> proc.returncode,
                         stdout |-> "stdout", stderr |-> "stderr"])
               EXCEPT !.sink = call.ex]
    /\ call' = NoCall
    /\ pc' = "idle"
    /\ UNCHANGED <<serialize_version, ctx, ctx0, resolveCalls, files,
                   os_environ, tmp, loaded>>

\* The shell process exits.
ShellExits ==
    /\ proc.state = "running"
    /\ \E returncode \in {0, 1} :
         proc' = [proc EXCEPT !.state = "exited", !.returncode = returncode]
    /\ UNCHANGED <<serialize_version, ctx, ctx0, resolveCalls, files,
                   os_environ, pc, call, ret, tmp, loaded>>

----
\* The program as a whole.

\* ResolvedContext.serialize_version as this source sets it
CurrentVersion == <<1, 0>>

InitAt(version) ==
    /\ serialize_version = version
    /\ ctx = NoCtx
    /\ ctx0 = NoCtx
    /\ resolveCalls = 0
    /\ files = [path \in Paths |-> NoFile]
    /\ os_environ = (<<"HOME">> :> <<"/home/user">>)
    /\ pc = "idle"
    /\ call = NoCall
    /\ ret = NoRet
    /\ tmp = NoDir
    /\ proc = NoProc
    /\ loaded = NoCtx

Init == InitAt(CurrentVersion)

\* the process environments a program may be started in: REZ_BUILD_ENV
\* unset, set but empty, or set
AmbientEnvs ==
    {(<<"HOME">> :> <<"/home/user">>),
     (<<"HOME">> :> <<"/home/user">>) @@ (<<"REZ_BUILD_ENV">> :> << >>),
     (<<"HOME">> :> <<"/home/user">>) @@ (<<"REZ_BUILD_ENV">> :> <<"1">>)}

InitAmbient ==
    /\ serialize_version = CurrentVersion
    /\ ctx = NoCtx
    /\ ctx0 = NoCtx
    /\ resolveCalls = 0
    /\ files = [path \in Paths |-> NoFile]
    /\ os_environ \in AmbientEnvs
    /\ pc = "idle"
    /\ call = NoCall
    /\ ret = NoRet
    /\ tmp = NoDir
    /\ proc = NoProc
    /\ loaded = NoCtx

Next ==
    \/ __init__
    \/ save
    \/ load
    \/ validate
    \/ print_info
    \/ get_environ
    \/ get_shell_code
    \/ apply
    \/ execute_command
    \/ _execute
    \/ _execute_next
    \/ _execute_raise
    \/ pass_return
    \/ execute_shell
    \/ sh_save
    \/ sh_write
    \/ sh_spawn
    \/ sh_communicate
    \/ ShellExits

Spec == Init /\ [][Next]_vars

\* save and load across releases: the running release is any version, and
\* the files it meets were written by any version
InitAnyRelease == \E version \in Versions : InitAt(version)

NextLoad ==
    \/ __init__
    \/ save
    \/ OtherReleaseSave
    \/ load

SpecLoad == InitAnyRelease /\ [][NextLoad]_vars

\* a context saved, loaded again, and both objects used
NextRoundTrip ==
    \/ __init__
    \/ save
    \/ load_kept
    \/ loaded_save

SpecRoundTrip == Init /\ [][NextRoundTrip]_vars

\* the calls that run one execution pass and return
NextPass ==
    \/ __init__
    \/ get_environ
    \/ get_shell_code
    \/ apply
    \/ execute_command
    \/ _execute
    \/ _execute_next
    \/ _execute_raise
    \/ pass_return

SpecPass == Init /\ [][NextPass]_vars

\* shell code from a package with any old-style command list
NextLegacy ==
    \/ __init__legacy
    \/ get_shell_code
    \/ _execute
    \/ _execute_next
    \/ pass_return

SpecLegacy == Init /\ [][NextLegacy]_vars

\* the same calls in a process started in any of the environments
SpecAmbient == InitAmbient /\ [][NextPass]_vars

\* shell launches
NextShell ==
    \/ __init__
    \/ execute_shell
    \/ sh_save
    \/ _execute
    \/ _execute_next
    \/ _execute_raise
    \/ sh_write
    \/ sh_spawn
    \/ sh_communicate
    \/ ShellExits

SpecShell == Init /\ [][NextShell]_vars

\* the context against a changing filesystem
NextValidate ==
    \/ __init__
    \/ validate
    \/ print_info

SpecValidate == Init /\ [][NextValidate]_vars

----
\* Properties of load (checked under SpecLoad).

\* a load that got as far as unpickling a complete blob
LoadedBlob == ret.op = "load" /\ ret.arg.stored # << >>

TooOld == ret.status = "raised" /\ ret.err.msg = "too old"
TooNew == ret.status = "raised" /\ ret.err.msg = "too new"

\* C1: a load of stored version (M, m) against the current version (CM, Cm)
\* fails as too new whenever M > CM, fails as too old whenever (M, m) is
\* below the minimum readable version (which the code takes to be the
\* current version), and otherwise returns the stored context; M = CM with
\* m > Cm is accepted, and no stored version meets both failure conditions.
C1_LoadVersionRule ==
    LoadedBlob =>
        LET M == ret.arg.stored[1]
            m == ret.arg.stored[2]
            CM == serialize_version[1]
            Cm == serialize_version[2]
            newer == M > CM
            older == M < CM \/ (M = CM /\ m < Cm)
        IN  /\ newer => TooNew
            /\ older => TooOld
            /\ (~newer /\ ~older) =>
                  /\ ret.status = "returned"
                  /\ ret.value.serialize_ver = ret.arg.stored
            /\ (M = CM /\ m > Cm) => ret.status = "returned"
            /\ ~(newer /\ older)

\* a newer minor of the current major was loaded
C1_Witness ==
    /\ LoadedBlob
    /\ ret.arg.stored[1] = serialize_version[1]
    /\ ret.arg.stored[2] > serialize_version[2]
    /\ ret.status = "returned"

----
\* Properties of the execution pass (checked under SpecPass).

PassOps == {"get_environ", "get_shell_code", "apply", "execute_command"}

\* the log of the pass in progress, or of the pass the last call ran
PassLog == IF pc # "idle" THEN call.ex.log ELSE ret.sink.log

IsBind(e) == e.ev = "bind"

\* the packages whose loop iteration the log shows, in log order
Visited(log) ==
    LET binds == SelectSeq(log, IsBind) IN [j \in 1..Len(binds) |-> binds[j].pkg]

Resolved == [j \in 1..Len(ctx.result.package_resolves) |->
                ctx.result.package_resolves[j].name]

\* position of a package in the resolve
Pos(name) == CHOOSE j \in 1..Len(Resolved) : Resolved[j] = name

IsPrefix(s, t) == Len(s) <= Len(t) /\ \A j \in 1..Len(s) : s[j] = t[j]

\* the value each package of the catalogue gives X, as text
XValue(name) ==
    IF name = "a" THEN <<"a:", "/root/a">> ELSE <<"/root/b", "/bin">>

\* the resolved packages whose commands set X and do not raise
XSetters == {j \in 1..Len(Resolved) : Resolved[j] \in {"a", "b"}}

Last(S) == CHOOSE j \in S : \A i \in S : i <= j

IsSetX(line) == line.kind = "setenv" /\ line.var = <<"X">>

\* C3: in a pass the packages are visited in resolved order, none skipped,
\* repeated or reordered; every resolution-scoped variable is set before
\* anything of a package is applied; what is applied for a package follows
\* what is applied for the packages before it; and when the pass has
\* returned, every resolved package was visited and a variable X that
\* several packages set holds the value of the last of them.
C3_ResolvedOrder ==
    Constructed =>
        LET log == PassLog
            done == pc = "idle" /\ ret.status = "returned" /\ ret.op \in PassOps
        IN  /\ IsPrefix(Visited(log), Resolved)
            /\ \A i, j \in 1..Len(log) :
                  i < j =>
                     /\ log[j].pkg = "" => log[i].pkg = ""
                     /\ (log[i].pkg # "" /\ log[j].pkg # "") =>
                           Pos(log[i].pkg) <= Pos(log[j].pkg)
                     /\ (log[i].ev = "cmd" /\ log[j].ev = "cmd"
                         /\ log[i].pkg = log[j].pkg) => log[i].i < log[j].i
            /\ done => Visited(log) = Resolved
            /\ (done /\ XSetters # {}) =>
                  LET x == XValue(Resolved[Last(XSetters)])
                      setx == SelectSeq(ret.sink.code, IsSetX)
                  IN  /\ ret.sink.env[<<"X">>] = x
                      /\ setx[Len(setx)].val = x
                      /\ ret.op = "get_environ" => ret.value[<<"X">>] = x
                      /\ ret.op = "apply" => os_environ[<<"X">>] = x

\* get_environ returned for a resolve of a then b, both of which set X
C3_Witness ==
    /\ Constructed
    /\ Resolved = <<"a", "b">>
    /\ pc = "idle"
    /\ ret.op = "get_environ"
    /\ ret.status = "returned"
    /\ ret.value[<<"X">>] = <<"/root/b", "/bin">>

PassRaised == pc = "idle" /\ ret.status = "raised" /\ ret.op \in PassOps

\* the package whose commands raised: the last one visited
Raiser == ret.sink.log[Len(ret.sink.log)].pkg

\* C4, the error: a pass whose package commands raised ends with a
\* command-execution error carrying the package's metadata file and the
\* cause.
C4_ErrorCarriesFileAndCause ==
    PassRaised =>
        /\ ret.err.type = "PkgCommandError"
        /\ ret.err.path = Catalogue[Raiser].metafile
        /\ ret.err.cause # ""

\* C4, the sink: nothing of a package after the raising one is applied, and
\* what was applied stays: the resolution-scoped variables, the REZ_
\* variables of every visited package, the raising one included, also in
\* os.environ when the pass is an apply.
C4_AbortsAndKeepsSink ==
    PassRaised =>
        LET env == ret.sink.env
            visited == Visited(ret.sink.log)
        IN  /\ IsPrefix(visited, Resolved)
            /\ \A j \in 1..Len(ret.sink.log) :
                  ret.sink.log[j].pkg # "" =>
                     Pos(ret.sink.log[j].pkg) <= Pos(Raiser)
            /\ {<<"REZ_USED">>, <<"REZ_REQUEST">>, <<"REZ_RAW_REQUEST">>,
                <<"REZ_RESOLVE">>, <<"REZ_RESOLVE_MODE">>,
                <<"REZ_FAILED_ATTEMPTS">>, <<"REZ_REQUEST_TIME">>}
                  \subseteq DOMAIN env
            /\ \A j \in 1..Len(visited) :
                  LET pkg == Catalogue[visited[j]]
                      prefix == <<"REZ_", upper(pkg.name)>>
                  IN  /\ prefix \o <<"_VERSION">> \in DOMAIN env
                      /\ prefix \o <<"_BASE">> \in DOMAIN env
                      /\ env[prefix \o <<"_ROOT">>] = <<pkg.root>>
            /\ env[<<"Z">>] = <<"c:", "1">>
            /\ ret.op = "apply" =>
                  \A var \in DOMAIN env : os_environ[var] = env[var]

\* C4 as claimed.
C4_RaiseAbortsWithCommandError ==
    C4_ErrorCarriesFileAndCause /\ C4_AbortsAndKeepsSink

----
\* Properties of execute_shell (checked under SpecShell).

\* an execute_shell call is in progress or was the last call
InShell == call.op = "execute_shell" \/ ret.op = "execute_shell"

\* its arguments
ShellArg == IF call.op = "execute_shell" THEN CallArg(call) ELSE ret.arg

ShellReturned ==
    pc = "idle" /\ ret.op = "execute_shell" /\ ret.status = "returned"

\* C5: with no block argument execute_shell blocks exactly when no command
\* (None, an empty string or an empty list) and no stdin mode was asked
\* for; a block argument that is given is used as it is.
C5_BlockDefault ==
    InShell =>
        /\ ShellArg.block = "None" =>
              (ShellArg.blocking <=>
                  (ShellArg.command \in {"None", "", "[]"} /\ ~ShellArg.stdin))
        /\ ShellArg.block = "True" => ShellArg.blocking
        /\ ShellArg.block = "False" => ~ShellArg.blocking

\* an empty command and no block argument: the call blocks
C5_Witness ==
    /\ InShell
    /\ ShellArg.block = "None"
    /\ ShellArg.command = ""
    /\ ~ShellArg.stdin
    /\ ShellArg.blocking

\* a command, no stdin mode and no block argument
CommandOnly ==
    /\ ret.arg.command \in {"cmd", "[cmd]"}
    /\ ~ret.arg.stdin
    /\ ret.arg.block = "None"

\* C6 as claimed: with a command, stdin false and no block argument the
\* call returns only when the shell process has completed, and returns its
\* exit code.
C6_CommandBlocksUntilExit ==
    (ShellReturned /\ CommandOnly) =>
        /\ ret.value.kind = "tuple"
        /\ proc.state = "exited"

\* C6 as amended: with a command, stdin false and no block argument the
\* call does not block; it returns the process handle, not an exit code.
C6_CommandReturnsHandle ==
    (ShellReturned /\ CommandOnly) =>
        /\ ~ret.arg.blocking
        /\ ret.value.kind = "Popen"

\* such a call has returned while its shell process is still running
C6_Witness ==
    /\ ShellReturned
    /\ CommandOnly
    /\ ret.value.kind = "Popen"
    /\ proc.state = "running"

C8_BlockingRemovesTempDir ==
    (pc = "idle" /\ ret.op = "execute_shell" /\ ret.arg.blocking) =>
        ~tmp.exists

----
\* Properties of validate (checked under SpecValidate).

\* the resolved packages whose root was missing when validate looked
MissingAt(gone) ==
    {j \in 1..Len(ctx.result.package_resolves) :
        ctx.result.package_resolves[j].root \in gone}

First(S) == CHOOSE j \in S : \A i \in S : j <= i

\* C9: validate returns when every resolved package's root exists, raises
\* naming the first package in resolved order whose root is missing
\* otherwise, and leaves the context as it was.
C9_ValidateNamesFirstMissing ==
    ret.op = "validate" =>
        LET miss == MissingAt(ret.arg) IN
        /\ miss = {} => ret.status = "returned"
        /\ miss # {} =>
              /\ ret.status = "raised"
              /\ ret.err.msg = "path does not exist"
              /\ ret.err.pkg = ctx.result.package_resolves[First(miss)].short
              /\ ret.err.path = ctx.result.package_resolves[First(miss)].root
        /\ ctx = ctx0

\* validate raised with two roots missing
C9_Witness ==
    /\ ret.op = "validate"
    /\ ret.status = "raised"
    /\ Cardinality(MissingAt(ret.arg)) >= 2

----
\* Properties of the context object (checked under Spec).

\* C10: after any sequence of calls, failed ones included, the context
\* holds what __init__ stored (request, mode, timestamp, flags, search
\* paths, provenance, serialize version, resolve result) and the resolver
\* has been invoked exactly once for it.
C10_ContextImmutable ==
    /\ Constructed => (ctx = ctx0 /\ resolveCalls = 1)
    /\ ~Constructed => resolveCalls = 0

\* a failed validate after a save, an apply and an execute_shell
C10_Witness ==
    /\ pc = "idle"
    /\ ret.op = "validate"
    /\ ret.status = "raised"
    /\ files["ctx.rxt"] # NoFile
    /\ <<"REZ_USED">> \in DOMAIN os_environ
    /\ tmp.exists

----
\* Properties of the live process environment (checked under Spec).

\* C11: get_environ, get_shell_code, execute_command and execute_shell
\* never change the live process environment, whether they return or
\* raise; a step that changes it belongs to an apply call.
C11_OnlyApplyWritesLiveEnv ==
    [][os_environ' # os_environ => call.op = "apply"]_vars

\* a get_environ call that failed midway, having set the resolution
\* variables in its own map and none of them in the live environment
C11_Witness ==
    /\ pc = "idle"
    /\ ret.op = "get_environ"
    /\ ret.status = "raised"
    /\ <<"REZ_USED">> \in DOMAIN ret.sink.env
    /\ <<"REZ_USED">> \notin DOMAIN os_environ

----
\* Properties of save followed by load (checked under SpecRoundTrip).

\* the fields the round trip is to reproduce
SameFields(r, c) ==
    /\ r.req_packages = c.req_packages
    /\ r.result.package_requests = c.result.package_requests
    /\ r.result.package_resolves = c.result.package_resolves
    /\ r.resolve_mode = c.resolve_mode
    /\ r.request_time = c.request_time
    /\ <<r.build_requires, r.assume_dt, r.caching, r.add_implicit_packages>>
         = <<c.build_requires, c.assume_dt, c.caching, c.add_implicit_packages>>
    /\ r.package_paths = c.package_paths
    /\ <<r.user, r.host, r.platform, r.arch, r.os, r.shell, r.rez_version,
         r.rez_path, r.implicit_packages, r.created>>
         = <<c.user, c.host, c.platform, c.arch, c.os, c.shell, c.rez_version,
             c.rez_path, c.implicit_packages, c.created>>
    /\ r.serialize_ver = c.serialize_ver

\* a load that read what save writes for the context
LoadOfSaved ==
    /\ Constructed
    /\ ret.op = "load"
    /\ ret.arg.blob = pickle_dump(ctx)

C13_InterruptedSaveLeavesNoPartial ==
    (ret.op = "save" /\ ret.status = "raised") => files[ret.arg] # Partial

----
\* Determinism of the variable map (checked under SpecAmbient).

RECURSIVE pass_from(_, _, _)
\* the loop of _execute from the k-th resolved package on, run to its end
pass_from(ex, pkgs, k) ==
    IF k > Len(pkgs) THEN [ex |-> ex, err |-> NoErr]
    ELSE LET r == _execute_pkg(ex, for_item(pkgs, k)) IN
         IF r.err # NoErr THEN r ELSE pass_from(r.ex, pkgs, k + 1)

\* what get_environ on the context self yields in a process whose
\* environment is environ: the map, or the error of the pass
MapUnder(self, environ) ==
    LET r == pass_from(_execute_init(self, RexExecutor("dict", << >>), environ),
                       self.result.package_resolves, 1)
    IN  IF r.err = NoErr THEN get_output(r.ex) ELSE r.err

\* contexts built from the same request, mode and timestamp over the same
\* resolve result as self, by any user, install and time
Twins(self) ==
    {[self EXCEPT !.user = u, !.rez_path = p, !.created = t] :
        u \in {"user", "root"}, p \in {"/opt/rez", "/usr/rez"}, t \in {100, 200}}

GotMap == pc = "idle" /\ ret.op = "get_environ" /\ ret.status = "returned"

----
\* Properties of the old-style rewrite (checked under SpecLegacy).

\* the reference expression that stands for a token
Ref(n) ==
    CASE n = "VERSION" -> "{version}"
      [] n = "MAJOR_VERSION" -> "{version.major}"
      [] n = "MINOR_VERSION" -> "{version.minor}"
      [] n = "BASE" -> "{base}"
      [] n = "ROOT" -> "{root}"
      [] OTHER -> "{user}"

IsTokenAt(str, i) ==
    /\ i + 2 <= Len(str)
    /\ str[i] = "!"
    /\ str[i + 1] \in TokenNames
    /\ str[i + 2] = "!"

\* where the tokens of a text start
Occ(str) == {i \in 1..Len(str) : IsTokenAt(str, i)}

\* two token occurrences share a "!"
Overlap(str) == \E i \in Occ(str) : i + 2 \in Occ(str)

RECURSIVE Scan(_)
\* a text with each token replaced where it stands, read left to right
Scan(str) ==
    IF str = << >> THEN << >>
    ELSE IF IsTokenAt(str, 1)
    THEN <<Ref(str[2])>> \o Scan(SubSeq(str, 4, Len(str)))
    ELSE <<Head(str)>> \o Scan(Tail(str))

\* shell code was produced from a package with old-style commands
GotLegacyCode ==
    /\ pc = "idle"
    /\ ret.op = "get_shell_code"
    /\ ret.status = "returned"
    /\ ctx.result.package_resolves[1].commands.kind = "list"

LegacyLines == ctx.result.package_resolves[1].commands.body

\* the instructions the package's lines became, as the sink received them
LegacyCode ==
    LET FromLine(c) == c.kind = "setenv" /\ c.var \in {<<"X">>, <<"Y">>}
    IN  SelectSeq(ret.value, FromLine)

\* the text after the "=" of a line
Rhs(line) == SubSeq(line, 4, Len(line))

----
\* Properties of the per-package step (checked under SpecPass).

\* the executor of the pass in progress, or of the pass the last call ran
PassSink == IF pc # "idle" THEN call.ex ELSE ret.sink

\* the instruction the sink received at the i-th entry of its log (the
\* binding of names is logged but is no instruction)
CodeAt(ex, i) ==
    ex.code[Cardinality({h \in 1..i : ex.log[h].ev # "bind"})]

\* the log entries of an event of a package
EventsOf(ex, ev, name) ==
    {i \in 1..Len(ex.log) : ex.log[i].ev = ev /\ ex.log[i].pkg = name}

\* the three package variables as the step is to set them
PkgVars(pkg) ==
    {[kind |-> "setenv", var |-> <<"REZ_", upper(pkg.name), "_VERSION">>,
      val |-> <<pkg.version>>],
     [kind |-> "setenv", var |-> <<"REZ_", upper(pkg.name), "_BASE">>,
      val |-> <<pkg.base>>],
     [kind |-> "setenv", var |-> <<"REZ_", upper(pkg.name), "_ROOT">>,
      val |-> <<pkg.root>>]}

\* C16: for every package the pass has visited, one without commands
\* included, REZ_<NAME>_VERSION, _BASE and _ROOT were set to the package's
\* version, base and root before any of its commands was evaluated, and
\* the sink holds them for what comes after.
C16_PackageVarsBeforeCommands ==
    Constructed =>
        LET ex == PassSink IN
        \A j \in 1..Len(Visited(ex.log)) :
            LET pkg == ctx.result.package_resolves[j]
                set == EventsOf(ex, "pkg_vars", pkg.name)
            IN  /\ {CodeAt(ex, i) : i \in set} = PkgVars(pkg)
                /\ \A i \in set, c \in EventsOf(ex, "cmd", pkg.name) : i < c
                /\ \A v \in PkgVars(pkg) : ex.env[v.var] = v.val

\* a pass over d, which declares no commands, then a, whose commands ran
C16_Witness ==
    /\ Constructed
    /\ Resolved = <<"d", "a">>
    /\ pc = "idle"
    /\ ret.status = "returned"
    /\ ret.op \in PassOps
    /\ EventsOf(ret.sink, "cmd", "a") # {}
    /\ EventsOf(ret.sink, "pkg_vars", "d") # {}

\* the variables of the sink whose name starts with the package's prefix,
\* and the one named by the uppercased package name alone
ScopedVars(ex, pkg) ==
    {v \in DOMAIN ex.env :
        \/ Len(v) >= 2 /\ v[1] = "REZ_" /\ v[2] = upper(pkg.name)
        \/ v = <<upper(pkg.name)>>}

\* C17 as claimed: for every package the pass has visited the sink holds
\* four package-scoped variables, the three with suffixes _VERSION, _BASE
\* and _ROOT and a marker named by the uppercased name itself.
C17_FourPackageVars ==
    Constructed =>
        \A j \in 1..Len(Visited(PassSink.log)) :
            LET pkg == ctx.result.package_resolves[j] IN
            /\ Cardinality(ScopedVars(PassSink, pkg)) = 4
            /\ \/ <<"REZ_", upper(pkg.name)>> \in DOMAIN PassSink.env
               \/ <<upper(pkg.name)>> \in DOMAIN PassSink.env

\* C17, amended: for every package the pass has visited the step set
\* three package-scoped variables, those with suffixes _VERSION, _BASE and
\* _ROOT, and no variable named by the uppercased name itself.
C17_ThreePackageVars ==
    Constructed =>
        \A j \in 1..Len(Visited(PassSink.log)) :
            LET pkg == ctx.result.package_resolves[j] IN
            /\ Cardinality(EventsOf(PassSink, "pkg_vars", pkg.name)) = 3
            /\ ScopedVars(PassSink, pkg) = {v.var : v \in PkgVars(pkg)}

\* a pass has returned after visiting two packages
C17_Witness ==
    /\ Constructed
    /\ pc = "idle"
    /\ ret.status = "returned"
    /\ ret.op \in PassOps
    /\ Len(Visited(ret.sink.log)) = 2
    /\ Cardinality(DOMAIN ret.sink.env) >= 13

\* the four names as bound for a package
BoundTo(pkg) ==
    [this |-> pkg.name, root |-> pkg.root, base |-> pkg.base,
     version |-> pkg.version]

\* the four names as the sink has them bound
BoundIn(ex) ==
    [this |-> ex.bound.this, root |-> ex.bound.root, base |-> ex.bound.base,
     version |-> ex.bound.version]

NoneBound ==
    [this |-> Unbound, root |-> Unbound, base |-> Unbound, version |-> Unbound]

----
\* Properties of the steps of execute_shell (checked under SpecShell).

\* an execute_shell call is in progress, or was the last call
ShellCall == call.op = "execute_shell" \/ ret.op = "execute_shell"

\* the snapshot file holds the whole pickled context
SnapshotWritten == tmp.rxt = pickle_dump(ctx)

\* C19: in execute_shell the temp dir is made first, then the snapshot is
\* written, then the pass runs, then the context file is written, then the
\* shell is spawned; once a shell has been spawned the temp dir holds the
\* whole snapshot and a context file with the output of the finished pass;
\* and a call that raised, in the save or the pass or elsewhere, spawned no
\* shell.
C19_ShellStepsInOrder ==
    ShellCall =>
        /\ pc = "sh_save" =>
              /\ tmp.exists
              /\ tmp.rxt = NoFile /\ tmp.context = NoFile
              /\ proc.state = "none"
        /\ pc \in {"execute", "packages"} =>
              /\ tmp.exists /\ SnapshotWritten
              /\ tmp.context = NoFile
              /\ proc.state = "none"
        /\ pc = "sh_spawn" =>
              /\ tmp.exists /\ SnapshotWritten
              /\ Visited(call.ex.log) = Resolved
              /\ tmp.context = get_output(call.ex)
              /\ proc.state = "none"
        /\ proc.state # "none" =>
              /\ tmp.exists /\ SnapshotWritten
              /\ Visited(PassSink.log) = Resolved
              /\ tmp.context = get_output(PassSink)
        /\ (pc = "idle" /\ ret.status = "raised") => proc.state = "none"

\* the shell has just been spawned for a context of two packages
C19_Witness ==
    /\ pc = "communicate"
    /\ proc.state = "running"
    /\ Len(Resolved) = 2
    /\ SnapshotWritten
    /\ Len(tmp.context) > 2

====
